---- MODULE Spec2Model ----
(***************************************************************************)
(* Gibbs-ringing removal (dipy/denoise/gibbs.py) as a state machine.       *)
(*                                                                         *)
(* Arrays are 0-based functions: a 2D array is [0..R-1 -> [0..N-1 -> v]].  *)
(* Floating-point numbers are fixed-point integers scaled by Q; complex    *)
(* numbers are records [re, im] of such integers.  numpy's slicing,        *)
(* broadcasting, fft2/ifft2/fftshift and boolean-mask assignment are       *)
(* written out element by element.                                         *)
(***************************************************************************)
EXTENDS Integers, Naturals, Sequences, FiniteSets, TLC

(***************************************************************************)
(* Bounds of the model.                                                    *)
(***************************************************************************)
MaxLen == 4          \* largest extent of a TV Estimator input
MaxNPoints == 3      \* largest n_points tried
MaxPix == 1          \* pixel intensities are 0..MaxPix
MaxShape == 8        \* largest extent handed to the Weight Generator
MaxRank == 5         \* largest rank of a volume
MaxDim == 3          \* largest extent of an axis of a volume
MaxVoxels == 32      \* largest number of voxels of a volume

(***************************************************************************)
(* Fixed-point arithmetic.                                                 *)
(***************************************************************************)
Q == 2^10            \* one unit of intensity
S == 2^13            \* working scale of the cosine series
TwoPiS == (25736 * S) \div 4096      \* 2*pi*S

Abs(a) == IF a < 0 THEN -a ELSE a
Min2(a, b) == IF a < b THEN a ELSE b
Max2(a, b) == IF a > b THEN a ELSE b
RDiv(a, b) == (2 * a + b) \div (2 * b)      \* a/b rounded to nearest, b > 0

RECURSIVE SumTo(_, _)
\* f[0] + ... + f[n-1]
SumTo(f, n) == IF n = 0 THEN 0 ELSE f[n - 1] + SumTo(f, n - 1)

\* cos(x)*S for 0 <= x <= pi/2, x given as xs = x*S (series up to x^10)
CosSeries(xs) ==
  LET x2 == (xs * xs) \div S
      t5 == S - (x2 \div 90)
      t4 == S - ((x2 * t5) \div (56 * S))
      t3 == S - ((x2 * t4) \div (30 * S))
      t2 == S - ((x2 * t3) \div (12 * S))
  IN  S - ((x2 * t2) \div (2 * S))

\* cos(2*pi*num/den)*Q, any integer num, den > 0
CosQ(num, den) ==
  LET t == num % den                         \* 0 <= t < den
      h == IF 2 * t > den THEN den - t ELSE t    \* fold to [0, 1/2] turn
      \* first quadrant: angle 2*pi*a/(4*den) with 0 <= a <= den
      neg == 4 * h > den
      a == IF neg THEN 2 * den - 4 * h ELSE 4 * h
      c == CosSeries((TwoPiS * a) \div (4 * den))
      r == RDiv(c * Q, S)
  IN  IF neg THEN -r ELSE r

\* sin(2*pi*num/den)*Q
SinQ(num, den) == CosQ(4 * num - den, 4 * den)

\* exp(2*pi*i*num/den) as a fixed-point complex number
Cis(num, den) == [re |-> CosQ(num, den), im |-> SinQ(num, den)]

CZero == [re |-> 0, im |-> 0]
CReal(a) == [re |-> a, im |-> 0]
CAdd(z, w) == [re |-> z.re + w.re, im |-> z.im + w.im]
CMul(z, w) == [re |-> RDiv(z.re * w.re - z.im * w.im, Q),
               im |-> RDiv(z.re * w.im + z.im * w.re, Q)]
CScale(z, n) == [re |-> RDiv(z.re, n), im |-> RDiv(z.im, n)]

RECURSIVE NewtonSqrt(_, _)
NewtonSqrt(n, x) ==
  LET y == (x + n \div x) \div 2
  IN  IF y >= x THEN x ELSE NewtonSqrt(n, y)

\* floor of the square root
ISqrt(n) == IF n = 0 THEN 0 ELSE NewtonSqrt(n, Min2(n, 46340))

\* abs() of a complex number
CAbs(z) == ISqrt(z.re * z.re + z.im * z.im)

(***************************************************************************)
(* Array helpers (numpy semantics).                                        *)
(***************************************************************************)
Size(v) == Cardinality(DOMAIN v)
NRows(a) == Size(a)
NCols(a) == IF Size(a) = 0 THEN 0 ELSE Size(a[0])
Shape2(a) == <<NRows(a), NCols(a)>>

\* A name bound to a computed array: The({e(a) : a \in {v}}) is e with the
\* name a standing for the value of v, which is evaluated once.
The(T) == CHOOSE y \in T : TRUE

\* numpy evaluates an array expression once and stores it: the same array
\* as an explicit table, so that no element is computed twice
Eager1(v) == v @@ <<>>
Eager2(a) == The({[r \in DOMAIN x |-> Eager1(x[r])] @@ <<>> : x \in {a}})

\* x.T
Transpose(a) == [c \in 0..(NCols(a) - 1) |-> [r \in 0..(NRows(a) - 1) |-> a[r][c]]]

\* a python slice bound i on a sequence of length L
PyBound(i, L) == Max2(0, Min2(L, IF i < 0 THEN i + L ELSE i))

\* v[start:stop]
Slice(v, start, stop) ==
  LET L == Size(v)
      a == PyBound(start, L)
      b == PyBound(stop, L)
  IN  [i \in 0..(b - a - 1) |-> v[a + i]]

\* v[start:]
SliceFrom(v, start) == Slice(v, start, Size(v))

\* np.concatenate((u, v, w)) of 1D rows
Concat3(u, v, w) ==
  [i \in 0..(Size(u) + Size(v) + Size(w) - 1) |->
     IF i < Size(u) THEN u[i]
     ELSE IF i < Size(u) + Size(v) THEN v[i - Size(u)]
     ELSE w[i - Size(u) - Size(v)]]

\* np.absolute(u - v) of two rows of equal length
AbsDiff(u, v) == Eager1([i \in DOMAIN u |-> Abs(u[i] - v[i])])
RowAdd(u, v) == Eager1([i \in DOMAIN u |-> u[i] + v[i]])

\* every R x N array with entries drawn from vals
Arrays(R, N, vals) == [0..(R - 1) -> [0..(N - 1) -> vals]]

\* admissible pixel intensities, in fixed point
Intensities == {p * Q : p \in 0..MaxPix}

(***************************************************************************)
(* TV Estimator: _image_tv(x, axis, n_points)                              *)
(***************************************************************************)
\* the line extended by repeating its edge samples instead of wrapping around
PadLineClamped(row, n_points) ==
  Concat3([i \in 0..n_points |-> row[0]], row,
          [i \in 0..n_points |-> row[Size(row) - 1]])

\* line 41: one line of xs extended by copies of its two ends
PadLine(row, n_points) ==
  Concat3(SliceFrom(row, -n_points - 1), row, Slice(row, 0, n_points + 1))

\* lines 44-45 (n = 0) and 49-50 (n >= 1): the n-th term of ptv on a padded line
PtvTerm(pad, n_points, n) ==
  AbsDiff(Slice(pad, n_points + 1 + n, -n_points - 1 + n),
          Slice(pad, n_points + 2 + n, -n_points + n))

\* lines 46-47 (n = 0) and 51-52 (n >= 1): the n-th term of ntv on a padded line
NtvTerm(pad, n_points, n) ==
  AbsDiff(Slice(pad, n_points + 1 - n, -n_points - 1 - n),
          Slice(pad, n_points - n, -n_points - 2 - n))

RECURSIVE PtvLine(_, _, _)
\* ptv of one padded line after the loop has run up to term n
PtvLine(pad, n_points, n) ==
  IF n = 0 THEN PtvTerm(pad, n_points, 0)
  ELSE RowAdd(PtvLine(pad, n_points, n - 1), PtvTerm(pad, n_points, n))

RECURSIVE NtvLine(_, _, _)
\* ntv of one padded line after the loop has run up to term n
NtvLine(pad, n_points, n) ==
  IF n = 0 THEN NtvTerm(pad, n_points, 0)
  ELSE RowAdd(NtvLine(pad, n_points, n - 1), NtvTerm(pad, n_points, n))

\* lines 35-57: returns <<ptv, ntv>>
_image_tv(x, axis, n_points) ==
  The({The({The({
    IF axis # 0 THEN <<ptv, ntv>>
    ELSE <<[c \in 0..(NCols(ptv) - 1) |-> [r \in DOMAIN ptv |-> ptv[r][c]]],
           [c \in 0..(NCols(ntv) - 1) |-> [r \in DOMAIN ntv |-> ntv[r][c]]]>> :
      ptv \in {Eager2([r \in DOMAIN xs |-> PtvLine(pad[r], n_points, n_points - 1)])},
      ntv \in {Eager2([r \in DOMAIN xs |-> NtvLine(pad[r], n_points, n_points - 1)])}}) :
      pad \in {Eager2([r \in DOMAIN xs |-> PadLine(xs[r], n_points)])}}) :
      xs \in {IF axis # 0 THEN x ELSE Eager2(Transpose(x))}})

(***************************************************************************)
(* Specification of the TV Estimator called on bounded inputs.             *)
(***************************************************************************)
VARIABLES tv_x, tv_axis, tv_n, tv_pc, tv_ret

tvVars == <<tv_x, tv_axis, tv_n, tv_pc, tv_ret>>

TVInit ==
  /\ \E R \in 1..MaxLen, N \in 1..MaxLen :
       /\ R * N <= 2 * MaxLen
       /\ tv_x \in Arrays(R, N, Intensities)
  /\ tv_axis \in {0, 1}
  /\ tv_n \in 1..MaxNPoints
  /\ tv_pc = "call"
  /\ tv_ret = <<>>

TVCall ==
  /\ tv_pc = "call"
  /\ tv_ret' = _image_tv(tv_x, tv_axis, tv_n)
  /\ tv_pc' = "returned"
  /\ UNCHANGED <<tv_x, tv_axis, tv_n>>

(***************************************************************************)
(* Weight Generator: _weights(shape).  A weight is the exact fraction      *)
(* num/den; the result is [err, G0, G1] with err the exception raised.     *)
(***************************************************************************)
Frac(n, d) == [num |-> n, den |-> d]

\* line 167: 1 + cos(k[i]) for k = linspace(-pi, pi, num), in fixed point
OnePlusCosK(i, num) == Q + CosQ(2 * i - (num - 1), 2 * (num - 1))

\* extent of the slice [1:-1] of an axis of extent n
Inner(n) == Max2(0, n - 2)

\* lines 170-174: numpy can broadcast the (m, m) meshgrid into G[1:-1, 1:-1]
InteriorFits(shape) ==
  LET m == Inner(shape[1])
  IN  m = Inner(shape[2]) \/ m = 1

IsCorner(i, j, shape) == i \in {0, shape[1] - 1} /\ j \in {0, shape[2] - 1}
IsInnerRow(i, shape) == 1 <= i /\ i <= shape[1] - 2
IsInnerCol(j, shape) == 1 <= j /\ j <= shape[2] - 2

\* lines 170-172: cosk0 and cosk1 at G[i, j] of the interior; both grids are cut
\* from k, whose length is shape[0]
CosK0(i, j, shape) == OnePlusCosK(i, shape[1])
CosK1(i, j, shape) ==
  OnePlusCosK(IF Inner(shape[1]) = 1 THEN 1 ELSE j, shape[1])

\* lines 166, 173, 177, 178
WeightG1(i, j, shape) ==
  IF IsCorner(i, j, shape) THEN Frac(1, 2)
  ELSE IF IsInnerRow(i, shape) /\ j \in {0, shape[2] - 1} THEN Frac(1, 1)
  ELSE IF IsInnerRow(i, shape) /\ IsInnerCol(j, shape)
       THEN Frac(CosK0(i, j, shape), CosK0(i, j, shape) + CosK1(i, j, shape))
  ELSE Frac(0, 1)

\* lines 165, 174, 179, 180
WeightG0(i, j, shape) ==
  IF IsCorner(i, j, shape) THEN Frac(1, 2)
  ELSE IF i \in {0, shape[1] - 1} /\ IsInnerCol(j, shape) THEN Frac(1, 1)
  ELSE IF IsInnerRow(i, shape) /\ IsInnerCol(j, shape)
       THEN Frac(CosK1(i, j, shape), CosK0(i, j, shape) + CosK1(i, j, shape))
  ELSE Frac(0, 1)

\* lines 165-182
_weights(shape) ==
  IF ~InteriorFits(shape)
  THEN [err |-> "ValueError", G0 |-> <<>>, G1 |-> <<>>]
  ELSE [err |-> "none",
        G0 |-> [i \in 0..(shape[1] - 1) |->
                  [j \in 0..(shape[2] - 1) |-> WeightG0(i, j, shape)]],
        G1 |-> [i \in 0..(shape[1] - 1) |->
                  [j \in 0..(shape[2] - 1) |-> WeightG1(i, j, shape)]]]

(***************************************************************************)
(* Specification of the Weight Generator called on bounded shapes.         *)
(***************************************************************************)
VARIABLES w_shape, w_pc, w_ret

wVars == <<w_shape, w_pc, w_ret>>

WInit ==
  /\ w_shape \in (1..MaxShape) \X (1..MaxShape)
  /\ w_pc = "call"
  /\ w_ret = <<>>

WCall ==
  /\ w_pc = "call"
  /\ w_ret' = _weights(w_shape)
  /\ w_pc' = IF w_ret'.err = "none" THEN "returned" ELSE "raised"
  /\ UNCHANGED w_shape

(***************************************************************************)
(* numpy.fft on fixed-point arrays.                                        *)
(***************************************************************************)
MaxSide == Max2(Max2(MaxLen, MaxShape), MaxDim)

\* exp(2*pi*i*t/n) for every n-th root of unity used by a transform
TwiddleTab == Eager2([n \in 1..MaxSide |-> [t \in 0..(n - 1) |-> Cis(t, n)]])
Twiddle(num, n) == TwiddleTab[n][num % n]

RECURSIVE CSumTo(_, _)
\* f[0] + ... + f[n-1] of complex numbers
CSumTo(f, n) == IF n = 0 THEN CZero ELSE CAdd(f[n - 1], CSumTo(f, n - 1))

\* the 1D transform of one line, exponent sign*2*pi*i*v*c/n, unnormalised
DFTLine(line, sign) ==
  [v \in DOMAIN line |->
     The({CSumTo(f, Size(line)) :
            f \in {Eager1([c \in DOMAIN line |->
                     CMul(line[c], Twiddle(sign * v * c, Size(line)))])}})]

\* the 2D transform: along axis 1, then along axis 0
DFT2(a, sign) ==
  The({The({[u \in DOMAIN a |-> [v \in 0..(NCols(a) - 1) |-> cols[v][u]]] :
      cols \in {Eager2([v \in 0..(NCols(a) - 1) |->
                  The({DFTLine(col, sign) :
                         col \in {Eager1([r \in DOMAIN a |-> rows[r][v]])}})])}}) :
      rows \in {Eager2([r \in DOMAIN a |-> DFTLine(a[r], sign)])}})

ToComplex(a) == [r \in DOMAIN a |-> [c \in DOMAIN a[r] |-> CReal(a[r][c])]]

\* np.fft.fft2 of a real array
fft2(a) == The({DFT2(c, -1) : c \in {Eager2(ToComplex(a))}})

\* np.fft.ifft2
ifft2(a) ==
  The({[u \in DOMAIN d |-> [v \in DOMAIN d[u] |->
          CScale(d[u][v], NRows(a) * NCols(a))]] : d \in {Eager2(DFT2(a, 1))}})

\* np.fft.fftshift over both axes: out[i] = in[(i - n//2) mod n]
fftshift(a) ==
  LET R == NRows(a)
      N == NCols(a)
  IN  [u \in DOMAIN a |-> [v \in DOMAIN a[u] |->
         a[(u - (R \div 2)) % R][(v - (N \div 2)) % N]]]

\* abs() of a complex array
AbsArray(a) == [u \in DOMAIN a |-> [v \in DOMAIN a[u] |-> CAbs(a[u][v])]]

(***************************************************************************)
(* 1D Line Corrector: _gibbs_removal_1d(x, axis, n_points).                *)
(* Shifts are kept in hundredths: ssamp = linspace(0.02, 0.9, 45) is       *)
(* 2, 4, ..., 90.                                                          *)
(***************************************************************************)
NumShifts == 45
ShiftStep == 2
ssamp(j) == ShiftStep * j                     \* j = 1..NumShifts

\* lines 107-108 and exp(k*s): the phase factor of frequency bin v for the
\* j-th shift, k[v] = 2*pi*i*(v - N/2)/N, s = ssamp(j)/100
RampTab ==
  Eager2([n \in 1..MaxSide |-> [t \in 0..(100 * n - 1) |-> Cis(t, 100 * n)]])
PhaseRamp(v, N, j, sign) == RampTab[N][(sign * (2 * v - N) * j) % (100 * N)]

\* lines 111 and 116: abs(ifft2(fftshift(c * exp(sign*k*s))))
ShiftedImage(c, j, sign) ==
  The({The({The({Eager2(AbsArray(inv)) :
      inv \in {Eager2(ifft2(shifted))}}) :
      shifted \in {Eager2(fftshift(ramped))}}) :
      ramped \in {Eager2([u \in DOMAIN c |-> [v \in DOMAIN c[u] |->
                     CMul(c[u][v], PhaseRamp(v, NCols(c), j, sign))]])}})

\* np.minimum of the two TV maps of an array, along axis 1
MinTV(a, n_points) ==
  The({Eager2([r \in DOMAIN tv[1] |-> [c \in DOMAIN tv[1][r] |->
                 Min2(tv[1][r][c], tv[2][r][c])]]) :
         tv \in {_image_tv(a, 1, n_points)}})

\* the boolean mask best > trial can index an array shaped like the image
MaskFits(best, image) ==
  /\ DOMAIN best = DOMAIN image
  /\ \A r \in DOMAIN image : DOMAIN best[r] = DOMAIN image[r]

\* the assignment with the mask best >= trial, under which a tie replaces
\* the earlier trial
MaskedAssignOnTies(a, b, best, trial) ==
  [r \in DOMAIN a |-> [c \in DOMAIN a[r] |->
     IF best[r][c] >= trial[r][c] THEN b[r][c] ELSE a[r][c]]]

\* a[best > trial] = b[best > trial]
MaskedAssign(a, b, best, trial) ==
  [r \in DOMAIN a |-> [c \in DOMAIN a[r] |->
     IF best[r][c] > trial[r][c] THEN b[r][c] ELSE a[r][c]]]

\* the fill that records the shift of the negative direction with its sign
MaskedFillSigned(a, s, best, trial) ==
  [r \in DOMAIN a |-> [c \in DOMAIN a[r] |->
     IF best[r][c] > trial[r][c] THEN -s ELSE a[r][c]]]

\* a[best > trial] = s
MaskedFill(a, s, best, trial) ==
  [r \in DOMAIN a |-> [c \in DOMAIN a[r] |->
     IF best[r][c] > trial[r][c] THEN s ELSE a[r][c]]]

\* the interpolation weighted by the shift of the same direction
InterpolateOwnWeight(isp, isn, sp, sn) == RDiv((isp - isn) * sp, sp + sn) + isn

\* line 135 at one pixel, evaluated exactly and rounded once
Interpolate(isp, isn, sp, sn) == RDiv((isp - isn) * sn, sp + sn) + isn

\* lines 131-135
InterpolateAll(xs, isp, isn, sp, sn) ==
  [r \in DOMAIN xs |-> [c \in DOMAIN xs[r] |->
     IF sp[r][c] + sn[r][c] # 0
     THEN Interpolate(isp[r][c], isn[r][c], sp[r][c], sn[r][c])
     ELSE xs[r][c]]]

Zeros(a) == [r \in DOMAIN a |-> [c \in DOMAIN a[r] |-> 0]]

\* lines 110-118: the j-th shift, both candidate images and their TV
Trial(c, j, n_points) ==
  The({[s |-> ssamp(j), img_p |-> img_p, tvs_p |-> MinTV(img_p, n_points),
        img_n |-> img_n, tvs_n |-> MinTV(img_n, n_points)] :
         img_p \in {ShiftedImage(c, j, 1)}, img_n \in {ShiftedImage(c, j, -1)}})

\* lines 95-104: the search state before the first trial
SearchStart(xs, n_points) ==
  The({[tvp |-> tv, tvn |-> tv, isp |-> xs, isn |-> xs,
        sp |-> Zeros(xs), sn |-> Zeros(xs)] : tv \in {MinTV(xs, n_points)}})

\* lines 120-128: the search state after trial h
SearchStep(b, h) ==
  [isp |-> Eager2(MaskedAssign(b.isp, h.img_p, b.tvp, h.tvs_p)),
   sp  |-> Eager2(MaskedFill(b.sp, h.s, b.tvp, h.tvs_p)),
   tvp |-> Eager2(MaskedAssign(b.tvp, h.tvs_p, b.tvp, h.tvs_p)),
   isn |-> Eager2(MaskedAssign(b.isn, h.img_n, b.tvn, h.tvs_n)),
   sn  |-> Eager2(MaskedFill(b.sn, h.s, b.tvn, h.tvs_n)),
   tvn |-> Eager2(MaskedAssign(b.tvn, h.tvs_n, b.tvn, h.tvs_n))]

RECURSIVE SearchRange(_, _, _, _, _)
\* lines 109-128: the trials lo..hi applied in order to the search state b
\* (the range is halved to keep the evaluation shallow)
SearchRange(b, c, lo, hi, n_points) ==
  IF lo > hi THEN b
  ELSE IF lo = hi
  THEN The({SearchStep(b, h) : h \in {Trial(c, lo, n_points)}})
  ELSE The({SearchRange(nb, c, (lo + hi) \div 2 + 1, hi, n_points) :
              nb \in {SearchRange(b, c, lo, (lo + hi) \div 2, n_points)}})

\* lines 109-128: the trials j..NumShifts applied to the search state b
SearchLoop(b, c, j, n_points) == SearchRange(b, c, j, NumShifts, n_points)

\* lines 88-140: [err, out], err the exception raised
_gibbs_removal_1d(x, axis, n_points) ==
  The({The({
    IF ~MaskFits(b0.tvp, xs)
    THEN [err |-> "IndexError", out |-> <<>>]
    ELSE The({The({The({
           [err |-> "none",
            out |-> IF axis # 0 THEN out ELSE Eager2(Transpose(out))] :
             out \in {Eager2(InterpolateAll(xs, b.isp, b.isn, b.sp, b.sn))}}) :
             b \in {SearchLoop(b0, c, 1, n_points)}}) :
             c \in {Eager2(fftshift(fft2(xs)))}}) :
      b0 \in {SearchStart(xs, n_points)}}) :
      xs \in {IF axis # 0 THEN x ELSE Eager2(Transpose(x))}})

(***************************************************************************)
(* 2D Slice Combiner: _gibbs_removal_2d(image, n_points, G0, G1).          *)
(* Line 230 compares np.any(G0), a boolean, with None, so the weights      *)
(* handed in are always the ones used.                                     *)
(***************************************************************************)
\* a complex number times a weight
CMulFrac(z, g) == [re |-> RDiv(z.re * g.num, g.den), im |-> RDiv(z.im * g.num, g.den)]

\* line 238: abs(ifft2(fftshift(C1)*G1 + fftshift(C0)*G0))
Blend(C1, C0, G0, G1) ==
  The({The({The({Eager2(AbsArray(inv)) :
      inv \in {Eager2(ifft2(mix))}}) :
      mix \in {Eager2([u \in DOMAIN s1 |-> [v \in DOMAIN s1[u] |->
                  CAdd(CMulFrac(s1[u][v], G1[u][v]), CMulFrac(s0[u][v], G0[u][v]))]])}}) :
      s1 \in {Eager2(fftshift(C1))}, s0 \in {Eager2(fftshift(C0))}})

\* lines 230-240: [err, out]
_gibbs_removal_2d(image, n_points, G0, G1) ==
  The({IF img_c1.err # "none" THEN img_c1
       ELSE IF img_c0.err # "none" THEN img_c0
       ELSE The({[err |-> "none", out |-> Blend(C1, C0, G0, G1)] :
                   C1 \in {Eager2(fft2(img_c1.out))},
                   C0 \in {Eager2(fft2(img_c0.out))}}) :
         img_c1 \in {_gibbs_removal_1d(image, 1, n_points)},
         img_c0 \in {_gibbs_removal_1d(image, 0, n_points)}})

(***************************************************************************)
(* The 1D Line Corrector as a state machine: one step for the set-up       *)
(* (lines 88-108), one per trial shift (lines 109-128), one for the        *)
(* interpolation and return (lines 130-140).  s_hist records, for every    *)
(* trial processed, the shift and the two candidate images with their TV.  *)
(***************************************************************************)
VARIABLES s_x, s_axis, s_n, s_pc, s_xs, s_c, s_j,
          s_tvp, s_tvn, s_isp, s_isn, s_sp, s_sn, s_ret, s_hist

sIn == <<s_x, s_axis, s_n>>
sBest == <<s_tvp, s_tvn, s_isp, s_isn, s_sp, s_sn>>
sVars == <<sIn, s_pc, s_xs, s_c, s_j, sBest, s_ret, s_hist>>

SInit ==
  /\ \E R \in 1..MaxLen, N \in 1..MaxLen :
       /\ R * N <= MaxLen
       /\ s_x \in Arrays(R, N, Intensities)
  /\ s_axis \in {0, 1}
  /\ s_n \in 1..MaxNPoints
  /\ s_pc = "start"
  /\ s_xs = <<>> /\ s_c = <<>> /\ s_j = 0
  /\ s_tvp = <<>> /\ s_tvn = <<>> /\ s_isp = <<>> /\ s_isn = <<>>
  /\ s_sp = <<>> /\ s_sn = <<>>
  /\ s_ret = <<>> /\ s_hist = <<>>

\* lines 88-108
SStart ==
  /\ s_pc = "start"
  /\ s_xs' = (IF s_axis # 0 THEN s_x ELSE Transpose(s_x))
  /\ LET b == SearchStart(s_xs', s_n)
     IN  /\ s_tvp' = b.tvp /\ s_tvn' = b.tvn
         /\ s_isp' = b.isp /\ s_isn' = b.isn
         /\ s_sp' = b.sp /\ s_sn' = b.sn
  /\ s_c' = fftshift(fft2(s_xs'))
  /\ s_j' = 0
  /\ s_pc' = "search"
  /\ UNCHANGED <<sIn, s_ret, s_hist>>

\* lines 109-128, one iteration; the masks of lines 121-128 raise IndexError
\* when the TV maps are narrower than the image (img_p is shaped like xs)
STrial ==
  /\ s_pc = "search"
  /\ s_j < NumShifts
  /\ LET j == s_j + 1
     IN  IF ~MaskFits(s_tvp, s_xs)
         THEN /\ s_pc' = "raised"
              /\ UNCHANGED <<s_j, sBest, s_hist>>
         ELSE /\ s_hist' = Append(s_hist, Trial(s_c, j, s_n))
              /\ LET b == SearchStep([tvp |-> s_tvp, tvn |-> s_tvn, isp |-> s_isp,
                                       isn |-> s_isn, sp |-> s_sp, sn |-> s_sn],
                                      s_hist'[j])
                 IN  /\ s_tvp' = b.tvp /\ s_tvn' = b.tvn
                     /\ s_isp' = b.isp /\ s_isn' = b.isn
                     /\ s_sp' = b.sp /\ s_sn' = b.sn
              /\ s_j' = j
              /\ s_pc' = "search"
  /\ UNCHANGED <<sIn, s_xs, s_c, s_ret>>

\* lines 130-140
SFinish ==
  /\ s_pc = "search"
  /\ s_j = NumShifts
  /\ LET out == InterpolateAll(s_xs, s_isp, s_isn, s_sp, s_sn)
     IN  s_ret' = IF s_axis # 0 THEN out ELSE Transpose(out)
  /\ s_pc' = "done"
  /\ UNCHANGED <<sIn, s_xs, s_c, s_j, sBest, s_hist>>

(***************************************************************************)
(* numpy arrays of any rank: a view [buf, shape, strides] on a flat        *)
(* buffer.  buf is "caller" (the memory of the array the caller passed)    *)
(* or "local" (memory allocated during the call).  Shapes, strides and     *)
(* index tuples are sequences; axis a of numpy is position a + 1.          *)
(***************************************************************************)
RECURSIVE ProdFrom(_, _)
\* shape[i] * ... * shape[Len(shape)]
ProdFrom(shape, i) == IF i > Len(shape) THEN 1 ELSE shape[i] * ProdFrom(shape, i + 1)

NumElements(shape) == ProdFrom(shape, 1)

\* strides of a C-contiguous array
CStrides(shape) == [i \in 1..Len(shape) |-> ProdFrom(shape, i + 1)]

\* the index tuple of the k-th element in C order
Unravel(k, shape) ==
  [i \in 1..Len(shape) |-> (k \div ProdFrom(shape, i + 1)) % shape[i]]

Indices(shape) == {Unravel(k, shape) : k \in 0..(NumElements(shape) - 1)}

RECURSIVE DotFrom(_, _, _)
DotFrom(idx, strides, i) ==
  IF i > Len(idx) THEN 0 ELSE idx[i] * strides[i] + DotFrom(idx, strides, i + 1)

\* position of element idx of a view in its buffer
Offset(view, idx) == DotFrom(idx, view.strides, 1)

ContiguousView(buf, shape) == [buf |-> buf, shape |-> shape, strides |-> CStrides(shape)]

\* np.swapaxes(vol, a, b): a view with the two axes exchanged; an axis outside
\* -nd..nd-1 raises AxisError
AxisInRange(a, nd) == -nd <= a /\ a < nd
NormAxis(a, nd) == IF a < 0 THEN a + nd ELSE a

SwapSeq(s, a, b) ==
  [i \in 1..Len(s) |-> IF i = a + 1 THEN s[b + 1] ELSE IF i = b + 1 THEN s[a + 1] ELSE s[i]]

swapaxes(view, a, b) ==
  LET nd == Len(view.shape)
      x == NormAxis(a, nd)
      y == NormAxis(b, nd)
  IN  [buf |-> view.buf, shape |-> SwapSeq(view.shape, x, y),
       strides |-> SwapSeq(view.strides, x, y)]

\* line 295: reshape of a rank-4 view to (s0, s1, s2*s3) needs no copy when the
\* last two axes are laid out one after the other
MergeIsView(view) ==
  \/ view.shape[3] = 1
  \/ view.shape[4] = 1
  \/ view.strides[3] = view.shape[4] * view.strides[4]

MergedShape(shape) == <<shape[1], shape[2], shape[3] * shape[4]>>

MergedView(view) ==
  [buf |-> view.buf, shape |-> MergedShape(view.shape),
   strides |-> <<view.strides[1], view.strides[2],
                 IF view.shape[4] = 1 THEN view.strides[3] ELSE view.strides[4]>>]

\* the split that takes the merged axis in column-major order (index g*Z + z)
SplitViewColumnMajor(view, inishap) ==
  [buf |-> view.buf, shape |-> inishap,
   strides |-> <<view.strides[1], view.strides[2],
                 view.strides[3], inishap[3] * view.strides[3]>>]

\* line 315: reshape of a rank-3 view back to inishap splits the last axis,
\* which never copies
SplitView(view, inishap) ==
  [buf |-> view.buf, shape |-> inishap,
   strides |-> <<view.strides[1], view.strides[2],
                 inishap[4] * view.strides[3], view.strides[3]>>]

\* the elements of a view in C order, as a fresh buffer
Gather(view, mem) ==
  [k \in 0..(NumElements(view.shape) - 1) |-> mem[Offset(view, Unravel(k, view.shape))]]

\* vol[:, :, vi] as a 2D array
SliceOf(view, mem, vi) ==
  Eager2([i \in 0..(view.shape[1] - 1) |-> [j \in 0..(view.shape[2] - 1) |->
     mem[Offset(view, <<i, j, vi>>)]]])

\* vol[:, :, vi] = img, on the buffer of the view
StoreSlice(view, mem, vi, img) ==
  [k \in DOMAIN mem |->
     IF \E i \in 0..(view.shape[1] - 1), j \in 0..(view.shape[2] - 1) :
          Offset(view, <<i, j, vi>>) = k
     THEN LET ij == CHOOSE ij \in (0..(view.shape[1] - 1)) \X (0..(view.shape[2] - 1)) :
                      Offset(view, <<ij[1], ij[2], vi>>) = k
          IN  img[ij[1]][ij[2]]
     ELSE mem[k]]

\* a rank-2 view as a 2D array, and a 2D array as a flat C-ordered buffer
AsImage(view, mem) ==
  Eager2([i \in 0..(view.shape[1] - 1) |-> [j \in 0..(view.shape[2] - 1) |->
     mem[Offset(view, <<i, j>>)]]])
Flatten(img) == [k \in 0..(NRows(img) * NCols(img) - 1) |->
                   img[k \div NCols(img)][k % NCols(img)]]

(***************************************************************************)
(* Volume Dispatcher: gibbs_removal(vol, slice_axis, n_points), one step   *)
(* per block of the function.                                              *)
(*   v_shape, v_in  the caller's array: its shape, its contents at entry   *)
(*   v_mem          the memory of the caller's array (written in place)    *)
(*   v_loc          memory allocated by the call                           *)
(*   v_vol          the array the local name vol is bound to               *)
(***************************************************************************)
VARIABLES v_shape, v_in, v_axis, v_n, v_mem, v_loc, v_vol, v_inishap,
          v_G, v_vi, v_pc, v_err, v_ret

vIn == <<v_shape, v_in, v_axis, v_n>>
vVars == <<vIn, v_mem, v_loc, v_vol, v_inishap, v_G, v_vi, v_pc, v_err, v_ret>>

nd == Len(v_shape)

AxisChoices == -1..3
Extents == 2..MaxDim

\* volumes that are dark except for at most one bright voxel
VolumeData(shape) ==
  {[k \in 0..(NumElements(shape) - 1) |-> IF k = h THEN lvl ELSE 0] :
     h \in -1..(NumElements(shape) - 1), lvl \in Intensities \ {0}}

\* the 2D slices such volumes are made of
SliceImages ==
  UNION {{Eager2([i \in 0..(a - 1) |-> [j \in 0..(b - 1) |->
                    IF i * b + j = h THEN lvl ELSE 0]]) :
            h \in -1..(a * b - 1), lvl \in Intensities \ {0}} :
         a \in Extents, b \in Extents}

\* _gibbs_removal_2d of every such slice under the weights of its shape
SliceTable ==
  [k \in SliceImages \X (1..MaxNPoints) |->
     The({IF w.err # "none" THEN [err |-> w.err, out |-> <<>>]
          ELSE _gibbs_removal_2d(k[1], k[2], w.G0, w.G1) :
            w \in {_weights(Shape2(k[1]))}})] @@ <<>>

\* a corrector that raises on a slice without signal, as it would if numpy
\* were set to raise on invalid floating-point operations
CorrectSliceNeedsSignal(img, n_points, G0, G1) ==
  The({IF \A r \in DOMAIN x : \A c \in DOMAIN x[r] : x[r][c] = 0
       THEN [err |-> "FloatingPointError", out |-> <<>>]
       ELSE IF <<x, n_points>> \in DOMAIN SliceTable
       THEN SliceTable[<<x, n_points>>]
       ELSE _gibbs_removal_2d(x, n_points, G0, G1) : x \in {img}})

\* lines 307 and 310: the call _gibbs_removal_2d(img, n_points=n_points, G0=G0, G1=G1);
\* G0, G1 are the weights of the slice's shape (line 303), under which the
\* table was computed
CorrectSlice(img, n_points, G0, G1) ==
  The({IF <<x, n_points>> \in DOMAIN SliceTable
       THEN SliceTable[<<x, n_points>>]
       ELSE _gibbs_removal_2d(x, n_points, G0, G1) : x \in {img}})

\* line 282
AxisTooLarge(slice_axis) == slice_axis > 2
\* lines 289 and 316
NeedsSwap(slice_axis, rank) == slice_axis < 2 /\ rank > 2
NeedsSwapBack(slice_axis, rank) == slice_axis < 2
\* lines 296 and 298
RankTooHigh(rank) == rank > 4
RankTooLow(rank) == rank < 2

BufOf(view) == IF view.buf = "caller" THEN v_mem ELSE v_loc

VInit ==
  /\ \E r \in 1..MaxRank :
       /\ v_shape \in [1..r -> Extents]
       /\ NumElements(v_shape) <= MaxVoxels
  /\ v_in \in VolumeData(v_shape)
  /\ v_axis \in AxisChoices
  /\ v_n \in 1..MaxNPoints
  /\ v_mem = v_in
  /\ v_loc = <<>>
  /\ v_vol = ContiguousView("caller", v_shape)
  /\ v_inishap = <<>>
  /\ v_G = <<>>
  /\ v_vi = 0
  /\ v_pc = "axis"
  /\ v_err = "none"
  /\ v_ret = <<>>

Raise(e) == v_pc' = "raised" /\ v_err' = e

\* lines 278-290
VAxis ==
  /\ v_pc = "axis"
  /\ IF AxisTooLarge(v_axis)
     THEN Raise("ValueError") /\ UNCHANGED v_vol
     ELSE IF NeedsSwap(v_axis, nd)
     THEN IF AxisInRange(v_axis, nd)
          THEN /\ v_vol' = swapaxes(v_vol, v_axis, 2)
               /\ v_pc' = "rank" /\ UNCHANGED v_err
          ELSE Raise("AxisError") /\ UNCHANGED v_vol
     ELSE v_pc' = "rank" /\ UNCHANGED <<v_vol, v_err>>
  /\ UNCHANGED <<vIn, v_mem, v_loc, v_inishap, v_G, v_vi, v_ret>>

\* lines 293-299
VRank ==
  /\ v_pc = "rank"
  /\ IF nd = 4
     THEN /\ v_inishap' = v_vol.shape
          /\ IF MergeIsView(v_vol)
             THEN v_vol' = MergedView(v_vol) /\ UNCHANGED v_loc
             ELSE /\ v_loc' = Gather(v_vol, BufOf(v_vol))
                  /\ v_vol' = ContiguousView("local", MergedShape(v_vol.shape))
          /\ v_pc' = "weights" /\ UNCHANGED v_err
     ELSE /\ IF RankTooHigh(nd) \/ RankTooLow(nd)
             THEN Raise("ValueError")
             ELSE v_pc' = "weights" /\ UNCHANGED v_err
          /\ UNCHANGED <<v_vol, v_loc, v_inishap>>
  /\ UNCHANGED <<vIn, v_mem, v_G, v_vi, v_ret>>

\* lines 302-303
VWeights ==
  /\ v_pc = "weights"
  /\ \E w \in {_weights(<<v_vol.shape[1], v_vol.shape[2]>>)} :
         IF w.err # "none"
         THEN Raise(w.err) /\ UNCHANGED v_G
         ELSE v_G' = w /\ v_pc' = "run" /\ UNCHANGED v_err
  /\ UNCHANGED <<vIn, v_mem, v_loc, v_vol, v_inishap, v_vi, v_ret>>

\* lines 306-307: a single image; vol is bound to the new array
VImage ==
  /\ v_pc = "run"
  /\ nd = 2
  /\ \E res \in {CorrectSlice(AsImage(v_vol, BufOf(v_vol)), v_n, v_G.G0, v_G.G1)} :
         IF res.err # "none"
         THEN Raise(res.err) /\ UNCHANGED <<v_loc, v_vol>>
         ELSE /\ v_loc' = Flatten(res.out)
              /\ v_vol' = ContiguousView("local", v_vol.shape)
              /\ v_pc' = "restore" /\ UNCHANGED v_err
  /\ UNCHANGED <<vIn, v_mem, v_inishap, v_G, v_vi, v_ret>>

\* lines 309-311, one iteration: slice vi is corrected and stored in place
VSlice ==
  /\ v_pc = "run"
  /\ nd # 2
  /\ v_vi < v_vol.shape[3]
  /\ \E res \in {CorrectSlice(SliceOf(v_vol, BufOf(v_vol), v_vi), v_n, v_G.G0, v_G.G1)} :
         IF res.err # "none"
         THEN Raise(res.err) /\ UNCHANGED <<v_mem, v_loc, v_vi>>
         ELSE /\ IF v_vol.buf = "caller"
                 THEN /\ v_mem' = StoreSlice(v_vol, v_mem, v_vi, res.out)
                      /\ UNCHANGED v_loc
                 ELSE /\ v_loc' = StoreSlice(v_vol, v_loc, v_vi, res.out)
                      /\ UNCHANGED v_mem
              /\ v_vi' = v_vi + 1
              /\ UNCHANGED <<v_pc, v_err>>
  /\ UNCHANGED <<vIn, v_vol, v_inishap, v_G, v_ret>>

\* line 309: the loop is exhausted
VLoopEnd ==
  /\ v_pc = "run"
  /\ nd # 2
  /\ v_vi = v_vol.shape[3]
  /\ v_pc' = "restore"
  /\ UNCHANGED <<vIn, v_mem, v_loc, v_vol, v_inishap, v_G, v_vi, v_err, v_ret>>

\* lines 313-319
VRestore ==
  /\ v_pc = "restore"
  /\ \E back \in {IF nd = 4 THEN SplitView(v_vol, v_inishap) ELSE v_vol} :
         IF NeedsSwapBack(v_axis, nd)
         THEN IF AxisInRange(v_axis, nd) /\ AxisInRange(2, nd)
              THEN /\ v_ret' = swapaxes(back, v_axis, 2)
                   /\ v_pc' = "returned" /\ UNCHANGED v_err
              ELSE Raise("AxisError") /\ UNCHANGED v_ret
         ELSE /\ v_ret' = back
              /\ v_pc' = "returned" /\ UNCHANGED v_err
  /\ UNCHANGED <<vIn, v_mem, v_loc, v_vol, v_inishap, v_G, v_vi>>

(***************************************************************************)
(* Specifications.                                                         *)
(***************************************************************************)
vars == <<tvVars, wVars, sVars, vVars>>

TVIdle == tv_x = <<>> /\ tv_axis = 0 /\ tv_n = 0 /\ tv_pc = "idle" /\ tv_ret = <<>>
WIdle == w_shape = <<>> /\ w_pc = "idle" /\ w_ret = <<>>

SIdle ==
  /\ s_x = <<>> /\ s_axis = 0 /\ s_n = 0 /\ s_pc = "idle"
  /\ s_xs = <<>> /\ s_c = <<>> /\ s_j = 0
  /\ s_tvp = <<>> /\ s_tvn = <<>> /\ s_isp = <<>> /\ s_isn = <<>>
  /\ s_sp = <<>> /\ s_sn = <<>>
  /\ s_ret = <<>> /\ s_hist = <<>>

VIdle ==
  /\ v_shape = <<>> /\ v_in = <<>> /\ v_axis = 0 /\ v_n = 0
  /\ v_mem = <<>> /\ v_loc = <<>> /\ v_vol = <<>> /\ v_inishap = <<>>
  /\ v_G = <<>> /\ v_vi = 0 /\ v_pc = "idle" /\ v_err = "none" /\ v_ret = <<>>

InitTV == TVInit /\ WIdle /\ SIdle /\ VIdle
TVStep == TVCall /\ UNCHANGED <<wVars, sVars, vVars>>
NextTV == TVStep
SpecTV == InitTV /\ [][NextTV]_vars

InitWeights == WInit /\ TVIdle /\ SIdle /\ VIdle
WStep == WCall /\ UNCHANGED <<tvVars, sVars, vVars>>
NextWeights == WStep
SpecWeights == InitWeights /\ [][NextWeights]_vars

InitSearch == SInit /\ TVIdle /\ WIdle /\ VIdle
SStartStep == SStart /\ UNCHANGED <<tvVars, wVars, vVars>>
STrialStep == STrial /\ UNCHANGED <<tvVars, wVars, vVars>>
SFinishStep == SFinish /\ UNCHANGED <<tvVars, wVars, vVars>>
NextSearch == SStartStep \/ STrialStep \/ SFinishStep
SpecSearch == InitSearch /\ [][NextSearch]_vars

InitVol == VInit /\ TVIdle /\ WIdle /\ SIdle
VAxisStep == VAxis /\ UNCHANGED <<tvVars, wVars, sVars>>
VRankStep == VRank /\ UNCHANGED <<tvVars, wVars, sVars>>
VWeightsStep == VWeights /\ UNCHANGED <<tvVars, wVars, sVars>>
VImageStep == VImage /\ UNCHANGED <<tvVars, wVars, sVars>>
VSliceStep == VSlice /\ UNCHANGED <<tvVars, wVars, sVars>>
VLoopEndStep == VLoopEnd /\ UNCHANGED <<tvVars, wVars, sVars>>
VRestoreStep == VRestore /\ UNCHANGED <<tvVars, wVars, sVars>>
NextVol ==
  VAxisStep \/ VRankStep \/ VWeightsStep \/ VImageStep \/ VSliceStep
    \/ VLoopEndStep \/ VRestoreStep
SpecVol == InitVol /\ [][NextVol]_vars

(***************************************************************************)
(* Properties of the Weight Generator (SpecWeights).                       *)
(***************************************************************************)
FracInUnit(g) == g.den > 0 /\ 0 <= g.num /\ g.num <= g.den
FracSumIsOne(g, h) == g.num * h.den + h.num * g.den = g.den * h.den

WeightsComplementary ==
  /\ DOMAIN w_ret.G0 = 0..(w_shape[1] - 1)
  /\ DOMAIN w_ret.G1 = 0..(w_shape[1] - 1)
  /\ \A i \in 0..(w_shape[1] - 1) :
       /\ DOMAIN w_ret.G0[i] = 0..(w_shape[2] - 1)
       /\ DOMAIN w_ret.G1[i] = 0..(w_shape[2] - 1)
       /\ \A j \in 0..(w_shape[2] - 1) :
            /\ FracInUnit(w_ret.G0[i][j])
            /\ FracInUnit(w_ret.G1[i][j])
            /\ FracSumIsOne(w_ret.G0[i][j], w_ret.G1[i][j])

\* C4: for every 2D shape, square or not, the Weight Generator returns G0 and
\* G1 of that shape with G0 + G1 = 1 and both in [0, 1] at every position.
C4_WeightsForEveryShape ==
  w_pc # "call" => (w_pc = "returned" /\ WeightsComplementary)

(***************************************************************************)
(* Properties of the TV Estimator (SpecTV).                                *)
(***************************************************************************)
\* extent of tv_x along the analysed axis
TVAxisLen == IF tv_axis # 0 THEN NCols(tv_x) ELSE NRows(tv_x)

\* the sample d steps further along the analysed axis, periodically
Along(x, axis, r, c, d) ==
  IF axis # 0 THEN x[r][(c + d) % NCols(x)] ELSE x[(r + d) % NRows(x)][c]

SameShapeNonNeg(a, x) ==
  /\ DOMAIN a = DOMAIN x
  /\ \A r \in DOMAIN x : DOMAIN a[r] = DOMAIN x[r]
  /\ \A r \in DOMAIN a : \A c \in DOMAIN a[r] : a[r][c] >= 0

\* C5: for every non-empty 2D array, axis and n_points >= 1 (also when the
\* axis is no longer than n_points) ptv and ntv have the shape of x and are
\* elementwise >= 0.
C5_TVShapeAndSign ==
  tv_pc = "returned" =>
    SameShapeNonNeg(tv_ret[1], tv_x) /\ SameShapeNonNeg(tv_ret[2], tv_x)

\* sum over n = 0..n_points-1 of |x[i + a + n] - x[i + b + n]| (indices mod N)
WindowSum(x, axis, r, c, n_points, a, b) ==
  SumTo([n \in 0..(n_points - 1) |->
           Abs(Along(x, axis, r, c, a + n) - Along(x, axis, r, c, b + n))],
        n_points)

\* sum over n = 0..n_points-1 of |x[i - n] - x[i - 1 - n]| (indices mod N)
WindowSumBack(x, axis, r, c, n_points) ==
  SumTo([n \in 0..(n_points - 1) |->
           Abs(Along(x, axis, r, c, -n) - Along(x, axis, r, c, -1 - n))],
        n_points)

NtvAsClaimed ==
  \A r \in DOMAIN tv_x : \A c \in DOMAIN tv_x[r] :
    tv_ret[2][r][c] = WindowSumBack(tv_x, tv_axis, r, c, tv_n)

\* C8 as stated: ptv[i] = sum |x[i+1+n] - x[i+2+n]| and
\* ntv[i] = sum |x[i-n] - x[i-1-n]|, periodic, whenever N >= n_points + 1.
C8_TVWindowsAsStated ==
  (tv_pc = "returned" /\ TVAxisLen >= tv_n + 1) =>
    /\ \A r \in DOMAIN tv_x : \A c \in DOMAIN tv_x[r] :
         tv_ret[1][r][c] = WindowSum(tv_x, tv_axis, r, c, tv_n, 1, 2)
    /\ NtvAsClaimed

\* C8 amended: the positive window starts at the pixel itself,
\* ptv[i] = sum |x[i+n] - x[i+1+n]|; ntv[i] = sum |x[i-n] - x[i-1-n]|;
\* all indices modulo N, whenever N >= n_points + 1.
C8_TVWindows ==
  (tv_pc = "returned" /\ TVAxisLen >= tv_n + 1) =>
    /\ DOMAIN tv_ret[1] = DOMAIN tv_x
    /\ \A r \in DOMAIN tv_x : \A c \in DOMAIN tv_x[r] :
         tv_ret[1][r][c] = WindowSum(tv_x, tv_axis, r, c, tv_n, 0, 1)
    /\ NtvAsClaimed

\* a call on a non-constant line whose last pixel's ptv and first pixel's ntv
\* are taken across the periodic boundary
C8_Witness ==
  /\ tv_pc = "returned"
  /\ tv_axis = 1
  /\ tv_n = 2
  /\ NCols(tv_x) = 3
  /\ tv_x[0][0] # tv_x[0][2]
  /\ tv_ret[1][0][2] > 0
  /\ tv_ret[2][0][0] > 0

(***************************************************************************)
(* Properties of the 1D Line Corrector (SpecSearch).                       *)
(***************************************************************************)
Pixels(a) == {<<r, c>> : r \in DOMAIN a, c \in 0..(NCols(a) - 1)}

IsConstant(a) == \A p \in Pixels(a), q \in Pixels(a) : a[p[1]][p[2]] = a[q[1]][q[2]]

AllZero(a) == \A p \in Pixels(a) : a[p[1]][p[2]] = 0

\* the search has been set up on TV maps shaped like the image
Searching == s_pc \in {"search", "done"} /\ MaskFits(s_tvp, s_xs)

\* C6: on a spatially constant slice the baseline TV is 0 at every pixel, no
\* trial shift is ever accepted (sp = sn = 0 throughout) and the corrector
\* returns the slice unchanged, for both axes.
C6_ConstantSliceUnchanged ==
  (IsConstant(s_x) /\ s_pc # "start") =>
    /\ s_pc # "raised"
    /\ MaskFits(s_tvp, s_xs) /\ AllZero(s_tvp) /\ AllZero(s_tvn)
    /\ AllZero(s_sp) /\ AllZero(s_sn)
    /\ s_pc = "done" => s_ret = s_x

\* indices of the trials processed so far
Processed == 1..Len(s_hist)

MinOf(T) == CHOOSE m \in T : \A k \in T : m <= k

\* one direction of the search at pixel p: best is the minimum of the baseline
\* and the trial TVs, shift is the earliest trial that attained a minimum below
\* the baseline (0 if none did), img is that trial's image (the original if none)
FoldOK(p, base, trialTV(_), trialImg(_), best, shift, img) ==
  LET m == MinOf({base} \cup {trialTV(i) : i \in Processed})
      hits == {i \in Processed : trialTV(i) = m}
  IN  /\ best = m
      /\ IF m < base
         THEN /\ shift = ssamp(MinOf(hits))
              /\ img = trialImg(MinOf(hits))
         ELSE /\ shift = 0
              /\ img = s_xs[p[1]][p[2]]

\* C9: after any prefix of the trial grid, at every pixel and independently
\* for the two directions, the best TV is the minimum of the baseline TV and
\* the TVs of the trials so far, the recorded shift is the earliest trial shift
\* attaining it when it is strictly below the baseline and 0 otherwise, and the
\* best-image value is the reconstruction at that shift (the original at 0).
C9_SearchFold ==
  Searching =>
    LET base == MinTV(s_xs, s_n)
    IN  /\ Len(s_hist) = s_j
        /\ \A i \in Processed : s_hist[i].s = ssamp(i)
        /\ \A p \in Pixels(s_xs) :
             LET tvsP(i) == s_hist[i].tvs_p[p[1]][p[2]]
                 imgP(i) == s_hist[i].img_p[p[1]][p[2]]
                 tvsN(i) == s_hist[i].tvs_n[p[1]][p[2]]
                 imgN(i) == s_hist[i].img_n[p[1]][p[2]]
             IN  /\ FoldOK(p, base[p[1]][p[2]], tvsP, imgP, s_tvp[p[1]][p[2]],
                           s_sp[p[1]][p[2]], s_isp[p[1]][p[2]])
                 /\ FoldOK(p, base[p[1]][p[2]], tvsN, imgN, s_tvn[p[1]][p[2]],
                           s_sn[p[1]][p[2]], s_isn[p[1]][p[2]])

\* a pixel whose positive search accepted an early trial, met an equal TV in a
\* later trial and kept the earlier shift, while its negative search stands at
\* another shift
C9_Witness ==
  /\ Searching
  /\ \E p \in Pixels(s_xs) : \E i \in Processed : \E k \in Processed :
       /\ i < k
       /\ s_sp[p[1]][p[2]] = ssamp(i)
       /\ s_hist[k].tvs_p[p[1]][p[2]] = s_tvp[p[1]][p[2]]
       /\ s_sn[p[1]][p[2]] # s_sp[p[1]][p[2]]

GridShifts == {ssamp(j) : j \in 1..NumShifts}

\* C10: throughout the search every entry of sp and sn is 0 or a grid shift
\* in [0.02, 0.9], hence >= 0; so wherever the interpolation applies
\* (sp + sn != 0) its divisor is > 0, and a pixel with sp = sn = 0 keeps its
\* original value.
C10_ShiftsNonNegative ==
  Searching =>
    \A p \in Pixels(s_xs) :
      LET sp == s_sp[p[1]][p[2]]
          sn == s_sn[p[1]][p[2]]
      IN  /\ sp \in GridShifts \cup {0} /\ sn \in GridShifts \cup {0}
          /\ sp = 0 \/ (2 <= sp /\ sp <= 90)
          /\ sn = 0 \/ (2 <= sn /\ sn <= 90)
          /\ sp + sn # 0 => sp + sn > 0
          /\ (s_pc = "done" /\ sp = 0 /\ sn = 0) =>
               (IF s_axis # 0 THEN s_ret[p[1]][p[2]] ELSE s_ret[p[2]][p[1]])
                 = s_xs[p[1]][p[2]]

\* a finished search with an interpolated pixel and an untouched pixel
C10_Witness ==
  /\ Searching /\ s_pc = "done"
  /\ \E p \in Pixels(s_xs) : s_sp[p[1]][p[2]] > 0 /\ s_sn[p[1]][p[2]] > 0
  /\ \E p \in Pixels(s_xs) : s_sp[p[1]][p[2]] = 0 /\ s_sn[p[1]][p[2]] = 0

\* the pixel of the returned array that pixel p of xs ends up as
RetAt(p) == IF s_axis # 0 THEN s_ret[p[1]][p[2]] ELSE s_ret[p[2]][p[1]]

\* C12: a pixel's output differs from its original value only if both
\* directions accepted a shift (sp > 0 and sn > 0); when exactly one of sp,
\* sn is non-zero the interpolation gives back the original value, because
\* the buffer of the direction whose shift stayed 0 still holds it.
C12_OneSidedShiftKeepsPixel ==
  Searching =>
    \A p \in Pixels(s_xs) :
      LET r == p[1]
          c == p[2]
      IN  /\ s_sp[r][c] = 0 => s_isp[r][c] = s_xs[r][c]
          /\ s_sn[r][c] = 0 => s_isn[r][c] = s_xs[r][c]
          /\ (s_pc = "done" /\ (s_sp[r][c] = 0 \/ s_sn[r][c] = 0)) =>
               /\ RetAt(p) = s_xs[r][c]
               /\ s_sp[r][c] + s_sn[r][c] # 0 =>
                    Interpolate(s_isp[r][c], s_isn[r][c], s_sp[r][c], s_sn[r][c])
                      = s_xs[r][c]
          /\ (s_pc = "done" /\ RetAt(p) # s_xs[r][c]) =>
               (s_sp[r][c] > 0 /\ s_sn[r][c] > 0)

\* a finished search with a pixel that only the positive search moved and a
\* pixel that only the negative search moved, each to another value
C12_Witness ==
  /\ Searching /\ s_pc = "done"
  /\ \E p \in Pixels(s_xs) :
       /\ s_sp[p[1]][p[2]] > 0 /\ s_sn[p[1]][p[2]] = 0
       /\ s_isp[p[1]][p[2]] # s_xs[p[1]][p[2]]
  /\ \E p \in Pixels(s_xs) :
       /\ s_sn[p[1]][p[2]] > 0 /\ s_sp[p[1]][p[2]] = 0
       /\ s_isn[p[1]][p[2]] # s_xs[p[1]][p[2]]

(***************************************************************************)
(* Properties of the Volume Dispatcher (SpecVol).                          *)
(***************************************************************************)
VEnded == v_pc \in {"returned", "raised"}

\* element idx of the caller's array at entry, and of the returned array
InAt(idx) == v_in[Offset(ContiguousView("caller", v_shape), idx)]
ResultAt(idx) == BufOf(v_ret)[Offset(v_ret, idx)]

\* C1: for every volume of rank 2, 3 or 4 and every slice_axis in {0, 1, 2}
\* gibbs_removal returns without raising, and what it returns has the shape of
\* the input volume.
C1_ReturnsInputShape ==
  (VEnded /\ nd \in 2..4 /\ v_axis \in 0..2)
    => (v_pc = "returned" /\ v_ret.shape = v_shape)

\* C2: every call whose slice_axis is not one of 0, 1, 2 or whose volume has
\* rank < 2 or rank > 4 raises an error and returns no result (whichever
\* error counts as input validation).
C2_InvalidCallRaises ==
  (VEnded /\ (v_axis \notin 0..2 \/ nd < 2 \/ nd > 4))
    => (v_pc = "raised" /\ v_ret = <<>>)

\* with the slice axis moved to position 2: idx = (i, j, z) or (i, j, z, g)
SliceCoords(idx) == SwapSeq(idx, v_axis, 2)
SliceShape == SwapSeq(v_shape, v_axis, 2)
GroupCount == IF nd = 4 THEN SliceShape[4] ELSE 1

\* the input's 2D slice at index z (rank 3) or (z, g) (rank 4)
InputSlice(z, g) ==
  Eager2([i \in 0..(SliceShape[1] - 1) |-> [j \in 0..(SliceShape[2] - 1) |->
     InAt(SwapSeq(IF nd = 4 THEN <<i, j, z, g>> ELSE <<i, j, z>>, v_axis, 2))]])

\* the 2D Slice Combiner applied to that slice alone
SliceAlone(z, g) ==
  LET img == InputSlice(z, g)
      w == _weights(Shape2(img))
  IN  CorrectSlice(img, v_n, w.G0, w.G1).out

ResultSlices ==
  \A idx \in Indices(v_shape) :
     LET c == SliceCoords(idx)
     IN  ResultAt(idx) = SliceAlone(c[3], IF nd = 4 THEN c[4] ELSE 0)[c[1]][c[2]]

\* while the slices are processed: slice vi of the working array is the
\* corrected input slice once processed and the untouched input slice before
WorkingSlices ==
  \A vi \in 0..(v_vol.shape[3] - 1) :
     LET z == vi \div GroupCount
         g == vi % GroupCount
     IN  SliceOf(v_vol, BufOf(v_vol), vi) =
           IF vi < v_vi THEN SliceAlone(z, g) ELSE InputSlice(z, g)

\* C3: for every rank-3 or rank-4 volume and slice_axis in {0, 1, 2}, each 2D
\* slice of the result (rank 4: every (z, g), flattened index z*G+g) is the 2D
\* Slice Combiner applied to the input's slice at that index alone, whatever
\* the other slices hold and whichever were processed before it; with
\* slice_axis = 0 this is swapping axes (0, 2), running along axis 2 and
\* swapping back.
C3_SlicesIndependent ==
  (nd \in 3..4 /\ v_axis \in 0..2) =>
    /\ v_pc = "run" => WorkingSlices
    /\ v_pc = "returned" => (v_ret.shape = v_shape /\ ResultSlices)

C3_Witness ==
  /\ v_pc = "returned" /\ nd = 4 /\ v_axis = 0
  /\ v_shape[3] # v_shape[4]
  /\ \E idx \in Indices(v_shape) : InAt(idx) # 0 /\ idx[3] # idx[4]
  /\ \E idx \in Indices(v_shape) : ResultAt(idx) # InAt(idx)

====
